---- MODULE Spec2Model ----
(***************************************************************************)
(* Model of the lookup-merge-reconcile pipeline of watchlist-kata/media.    *)
(*                                                                         *)
(* The repository holds two generations of the service:                    *)
(*   - the TMDB variant  (service.go:52-233, postgres.go): the merged list *)
(*     is returned at once and the store is reconciled by a goroutine;     *)
(*   - the Kinopoisk variant (service.go:322-559, repository.go): the      *)
(*     store is created/updated inline, before the list is returned.       *)
(* `variant` selects the generation a behaviour runs; it never changes.    *)
(***************************************************************************)
EXTENDS Integers, Sequences, FiniteSets, TLC

VARIABLES
    variant,        \* "tmdb" | "kp": which generation of the service runs
    store,          \* the media table: a set of rows
    nextId,         \* the table's primary-key sequence
    calls,          \* number of service calls started so far
    created,        \* external ID -> number of successful inserts
    updated,        \* external ID -> number of successful updates
    updatedAt,      \* external ID -> updated_at of its row (0: no row yet)
    now,            \* the clock the service and the table read, in seconds
    updMedia,       \* per caller: the record of its last UpdateMedia/SaveMedia
    layout,         \* "main": cmd/main.go; "utils": part_008 with GracefulShutdown
    mainPc,         \* main: serving | select | wgWait | exited | forced
    stopPc,         \* shutdown goroutine: none | stopping | closing | sending | done
    srvPc,          \* server goroutine: serving | failed | returned
    inFlight,       \* RPCs the gRPC server is running
    stuck,          \* how many of them never finish
    errChan,        \* errors buffered in errChan
    shutdownDone,   \* values buffered in shutdownDone
    ctxCancelled,   \* cancel() was called on main's context
    timeout,        \* time.After(10 s): off | running | fired
    grpcStopped,    \* GracefulStop has returned
    dbClosed,       \* sqlDB.Close() was called by the shutdown goroutine
    pc,             \* per caller: position of its invocation
    name,           \* per caller: req.Name
    searchErr,      \* per caller: the catalog search returned an error
    queryErr,       \* per caller: the name-match query returned an error
    localMedias,    \* per caller: rows returned by the name-match query
    catMedias,      \* per caller: tmdbMedias / kinopoiskMedias (objects)
    idx,            \* per caller: index of the catalog record in process
    mediaPointers,  \* per caller: tmdb: references; kp: the records
    mediaMap,       \* per caller: kp: external ID -> record (or NoMedia)
    dbMedia,        \* per caller: kp: row read by GetMediaByKinopoiskID
    result,         \* per caller: what the caller received, or NoResult
    launched,       \* per caller: goroutines started by the invocation
    cancelled,      \* per caller: where the inbound context was cancelled
    ops,            \* per caller: create/update calls issued, in order
    fnExisting,     \* needsUpdate called on its own: first operand, or NoMedia
    fnNew,          \* needsUpdate called on its own: second operand, or NoMedia
    fnResult        \* its outcome: "none" before the call

storeVars == <<store, nextId, created, updated, updatedAt>>
procVars  == <<pc, name, searchErr, queryErr, localMedias, catMedias, idx, mediaPointers,
               mediaMap, dbMedia, result, launched, cancelled, ops>>
fnVars    == <<fnExisting, fnNew, fnResult>>
sdVars    == <<layout, mainPc, stopPc, srvPc, inFlight, stuck, errChan, shutdownDone,
               ctxCancelled, timeout, grpcStopped, dbClosed>>
vars      == <<variant, calls, storeVars, procVars, fnVars, now, updMedia, sdVars>>

(***************************************************************************)
(* Bounds and value sets                                                   *)
(***************************************************************************)
MaxCalls == 2       \* service calls per behaviour
MaxTime == 3        \* the clock stops here
MaxStoreCalls == 3  \* repository calls per behaviour, when clients call it directly
MaxRpcs == 2        \* RPCs in flight when the shutdown begins

Procs  == {1, 2}
ExtIds == {5, 9}

\* Text is a sequence of characters, so that LIKE '%name%' is computed.
Old   == <<"O", "l", "d">>
New   == <<"N", "e", "w">>
Other == <<"O", "t", "h", "e", "r">>
Empty == <<>>

Titles == {Old, New, Other}
Names  == {<<"o">>, <<"E">>, Empty}

NoMedia  == [none |-> TRUE]
NoResult == [none |-> TRUE]

(***************************************************************************)
(* strings.ToLower and SQL lower(): the letters the model uses             *)
(***************************************************************************)
LowerChar(c) ==
    CASE c = "O" -> "o"
      [] c = "N" -> "n"
      [] c = "E" -> "e"
      [] OTHER   -> c

ToLower(s) == [i \in DOMAIN s |-> LowerChar(s[i])]

\* s LIKE '%' || sub || '%'
Like(s, sub) ==
    \E i \in 0..(Len(s) - Len(sub)) :
        \A k \in 1..Len(sub) : s[i + k] = sub[k]

(***************************************************************************)
(* Sequence helpers                                                        *)
(***************************************************************************)
Range(s) == {s[i] : i \in DOMAIN s}

\* every ordering of a finite set of rows (a query without ORDER BY)
Orderings(S) ==
    {s \in [1..Cardinality(S) -> S] : \A i, j \in DOMAIN s : i # j => s[i] # s[j]}

(***************************************************************************)
(* The media table (PostgreSQL through GORM): primary key Id, unique       *)
(* external ID.  ExtOf reads the column that is unique in the variant.     *)
(***************************************************************************)
ExtOf(m) == IF variant = "tmdb" THEN m.TmdbId ELSE m.KinopoiskId

\* db.First(&row, id): the row with this primary key, or NoMedia
RowById(id) ==
    IF \E r \in store : r.Id = id
    THEN CHOOSE r \in store : r.Id = id
    ELSE NoMedia

\* db.Where("kinopoisk_id = ?", e).First(&row)
RowByExt(e) ==
    IF \E r \in store : ExtOf(r) = e
    THEN CHOOSE r \in store : ExtOf(r) = e
    ELSE NoMedia

\* the unique index on the external ID column (gorm:"unique")
UniqueExtOk(m, others) == \A r \in others : ExtOf(r) # ExtOf(m)

\* variant of InsertOk for a table without the unique index
InsertOk_NoUniqueIndex(m) == m.Id # 0 => RowById(m.Id) = NoMedia

\* INSERT succeeds: neither the primary key nor the unique index is violated
InsertOk(m) ==
    /\ UniqueExtOk(m, store)
    /\ m.Id # 0 => RowById(m.Id) = NoMedia

\* the row an INSERT writes: a zero Id is filled from the sequence
InsertRow(m) == IF m.Id = 0 THEN [m EXCEPT !.Id = nextId] ELSE m

\* the sequence is read for every INSERT that leaves Id to the database
SeqAfterInsert(m) == IF m.Id = 0 THEN nextId + 1 ELSE nextId

\* lower(title) LIKE ? OR lower(title_ru) LIKE ?  with "%"+ToLower(name)+"%"
NameMatch(n) ==
    IF variant = "tmdb"
    THEN {r \in store : \/ Like(ToLower(r.Title), ToLower(n))
                        \/ Like(ToLower(r.TitleRu), ToLower(n))}
    ELSE {r \in store : \/ Like(ToLower(r.NameEn), ToLower(n))
                        \/ Like(ToLower(r.NameRu), ToLower(n))}

(***************************************************************************)
(* TMDB variant: records                                                   *)
(***************************************************************************)
\* a search result as SearchTMDB builds it: no Id, no DescriptionRu
TmdbMedia(id, title) ==
    [Id |-> 0, TmdbId |-> id, Type |-> "Movie", Title |-> title,
     TitleRu |-> Empty, Description |-> Empty, DescriptionRu |-> Empty,
     ReleaseDate |-> Empty, Poster |-> Empty]

TmdbCatalog == {TmdbMedia(5, Old), TmdbMedia(5, New), TmdbMedia(9, Other)}

\* what the catalog may answer for a keyword: nothing, one record, the two
\* records of the specification's example, an external ID repeated with
\* different values, an external ID repeated with the same values
TmdbAnswers ==
    {<<>>,
     <<TmdbMedia(5, New)>>,
     <<TmdbMedia(5, New), TmdbMedia(9, Other)>>,
     <<TmdbMedia(5, Old), TmdbMedia(5, New)>>,
     <<TmdbMedia(9, Other), TmdbMedia(9, Other)>>}

\* needsUpdate, service.go:128-136
needsUpdateTMDB(localMedia, tmdbMedia) ==
    \/ localMedia.Title # tmdbMedia.Title
    \/ localMedia.TitleRu # tmdbMedia.TitleRu
    \/ localMedia.Description # tmdbMedia.Description
    \/ localMedia.DescriptionRu # tmdbMedia.DescriptionRu
    \/ localMedia.ReleaseDate # tmdbMedia.ReleaseDate
    \/ localMedia.Poster # tmdbMedia.Poster

\* UpdateMedia's "all fields are the same, nothing to update" test
SameFieldsTMDB(existingMedia, media) ==
    /\ existingMedia.TmdbId = media.TmdbId
    /\ existingMedia.Type = media.Type
    /\ existingMedia.Title = media.Title
    /\ existingMedia.TitleRu = media.TitleRu
    /\ existingMedia.Description = media.Description
    /\ existingMedia.DescriptionRu = media.DescriptionRu
    /\ existingMedia.ReleaseDate = media.ReleaseDate
    /\ existingMedia.Poster = media.Poster

\* db.Save(media): UPDATE by primary key, INSERT when no such row
SaveOk(m) ==
    IF m.Id = 0 THEN InsertOk(m)
    ELSE UniqueExtOk(m, {r \in store : r.Id # m.Id})

SaveStore(m) ==
    IF m.Id = 0 THEN store \cup {InsertRow(m)}
    ELSE {r \in store : r.Id # m.Id} \cup {m}

(***************************************************************************)
(* TMDB variant: the merge of GetMediasByName                              *)
(***************************************************************************)
\* mediaPointers holds references: <<"L", i>> is localMedias[i],
\* <<"T", j>> is tmdbMedias[j]
Deref(locals, cats, ref) ==
    IF ref[1] = "L" THEN locals[ref[2]] ELSE cats[ref[2]]

DerefAll(locals, cats, ptrs) ==
    [k \in DOMAIN ptrs |-> Deref(locals, cats, ptrs[k])]

\* first loop: every local record is appended and indexed
MergeLocalTMDB(locals) == [i \in DOMAIN locals |-> <<"L", i>>]

\* variant of MergeCatalogTMDB that does not index what it appends
RECURSIVE MergeCatalogTMDB_Dup(_, _, _, _)
MergeCatalogTMDB_Dup(tmdbMedias, i, ptrs, seen) ==
    IF i > Len(tmdbMedias) THEN ptrs
    ELSE IF tmdbMedias[i].TmdbId \notin seen
         THEN MergeCatalogTMDB_Dup(tmdbMedias, i + 1, Append(ptrs, <<"T", i>>), seen)
         ELSE MergeCatalogTMDB_Dup(tmdbMedias, i + 1, ptrs, seen)

\* second loop: a catalog record is appended unless its TmdbId is indexed
RECURSIVE MergeCatalogTMDB(_, _, _, _)
MergeCatalogTMDB(tmdbMedias, i, ptrs, seen) ==
    IF i > Len(tmdbMedias) THEN ptrs
    ELSE IF tmdbMedias[i].TmdbId \notin seen
         THEN MergeCatalogTMDB(tmdbMedias, i + 1, Append(ptrs, <<"T", i>>),
                               seen \cup {tmdbMedias[i].TmdbId})
         ELSE MergeCatalogTMDB(tmdbMedias, i + 1, ptrs, seen)

MergeTMDB(locals, tmdbMedias) ==
    MergeCatalogTMDB(tmdbMedias, 1, MergeLocalTMDB(locals),
                     {locals[i].TmdbId : i \in DOMAIN locals})

\* updateDatabaseAsync's mediaMap: the last local record of each TmdbId
LocalMapTMDB(locals, e) ==
    LET I == {i \in DOMAIN locals : locals[i].TmdbId = e}
    IN  IF I = {} THEN NoMedia
        ELSE locals[CHOOSE i \in I : \A j \in I : j <= i]

(***************************************************************************)
(* Kinopoisk variant: records and repository (repository.go)               *)
(***************************************************************************)
\* a search result of the Kinopoisk client: no Id
KpMedia(id, nm) ==
    [Id |-> 0, KinopoiskId |-> id, Type |-> "movie", NameEn |-> nm,
     NameRu |-> Empty, Description |-> Empty, Year |-> Empty, Poster |-> Empty,
     Countries |-> Empty, Genres |-> Empty]

KpCatalog == {KpMedia(5, Old), KpMedia(5, New), KpMedia(9, Other)}

KpAnswers ==
    {<<>>,
     <<KpMedia(5, New)>>,
     <<KpMedia(5, New), KpMedia(9, Other)>>,
     <<KpMedia(5, Old), KpMedia(5, New)>>,
     <<KpMedia(9, Other), KpMedia(9, Other)>>}

\* needsUpdate, service.go:544-559
needsUpdateKP(existingMedia, newMedia) ==
    \/ existingMedia = NoMedia
    \/ newMedia = NoMedia
    \/ existingMedia.KinopoiskId # newMedia.KinopoiskId
    \/ existingMedia.Type # newMedia.Type
    \/ existingMedia.NameEn # newMedia.NameEn
    \/ existingMedia.NameRu # newMedia.NameRu
    \/ existingMedia.Description # newMedia.Description
    \/ existingMedia.Year # newMedia.Year
    \/ existingMedia.Poster # newMedia.Poster
    \/ existingMedia.Countries # newMedia.Countries
    \/ existingMedia.Genres # newMedia.Genres

\* repository UpdateMedia: the row exists and holds the caller's kinopoisk_id
RepoUpdateOk(media) ==
    /\ RowById(media.Id) # NoMedia
    /\ RowById(media.Id).KinopoiskId = media.KinopoiskId

\* the row after Model(&existingMedia).Updates(updates)
RepoUpdatedRow(media) ==
    [RowById(media.Id) EXCEPT
        !.Type = media.Type, !.NameEn = media.NameEn, !.NameRu = media.NameRu,
        !.Description = media.Description, !.Year = media.Year,
        !.Poster = media.Poster, !.Countries = media.Countries,
        !.Genres = media.Genres]

\* variant of RepoUpdateStore that deletes the row it should rewrite
RepoUpdateStore_DeleteRow(media) == {r \in store : r.Id # media.Id}

RepoUpdateStore(media) ==
    {r \in store : r.Id # media.Id} \cup {RepoUpdatedRow(media)}

(***************************************************************************)
(* Kinopoisk variant: the merge of GetMediasByName (service.go:353-431)    *)
(***************************************************************************)
\* first loop (357-363): a local record is appended unless already indexed
RECURSIVE MergeLocalKP(_, _, _)
MergeLocalKP(locals, i, ptrs) ==
    IF i > Len(locals) THEN ptrs
    ELSE IF \E k \in DOMAIN ptrs : ptrs[k].KinopoiskId = locals[i].KinopoiskId
         THEN MergeLocalKP(locals, i + 1, ptrs)
         ELSE MergeLocalKP(locals, i + 1, Append(ptrs, locals[i]))

LocalMapKP(ptrs) ==
    [e \in ExtIds |->
        IF \E k \in DOMAIN ptrs : ptrs[k].KinopoiskId = e
        THEN ptrs[CHOOSE k \in DOMAIN ptrs : ptrs[k].KinopoiskId = e]
        ELSE NoMedia]

\* variant of ReplaceFirst that drops the entry and appends the new record
ReplaceFirst_Move(ptrs, updatedMedia) ==
    Append(SelectSeq(ptrs, LAMBDA m : m.KinopoiskId # updatedMedia.KinopoiskId),
           updatedMedia)

\* 423-428: the first entry with the updated record's KinopoiskId is replaced
ReplaceFirst(ptrs, updatedMedia) ==
    LET K == {k \in DOMAIN ptrs : ptrs[k].KinopoiskId = updatedMedia.KinopoiskId}
    IN  IF K = {} THEN ptrs
        ELSE [ptrs EXCEPT ![CHOOSE k \in K : \A j \in K : k <= j] = updatedMedia]


(***************************************************************************)
(* Table writes                                                            *)
(***************************************************************************)
Bump(f, e) == [f EXCEPT ![e] = @ + 1]

\* time.Time{} as time.Parse returns it next to an error
ZeroTime == 0

\* the clock at the start of a behaviour: some time after the zero time
StartTime == ZeroTime + 2

\* t.Format(time.RFC3339) and time.Parse(time.RFC3339, s): a text is a
\* timestamp when it has the layout, anything else parses to the zero time
\* (gorm_models.go:49-50 drops the error)
FormatTime(t) == <<"T", t>>

ParseTime(s) == IF Len(s) = 2 /\ s[1] = "T" THEN s[2] ELSE ZeroTime

\* the updated_at of an inserted row: the field's value, the current time
\* when the field holds the zero time
CreateStamp(supplied) == IF supplied = ZeroTime THEN now ELSE supplied

Stamp(f, e, t) == [f EXCEPT ![e] = t]

\* db.Create: INSERT; a conflict leaves the table as it was
DbCreateAt(m, supplied) ==
    /\ nextId' = SeqAfterInsert(m)
    /\ IF InsertOk(m)
       THEN /\ store' = store \cup {InsertRow(m)}
            /\ created' = Bump(created, ExtOf(m))
            /\ updatedAt' = Stamp(updatedAt, ExtOf(m), CreateStamp(supplied))
       ELSE UNCHANGED <<store, created, updatedAt>>
    /\ UNCHANGED updated

\* a create of a record whose UpdatedAt is not a timestamp
DbCreate(m) == DbCreateAt(m, ZeroTime)

\* db.Save of a record with a non-zero Id (postgres.go:66-76)
DbSave(m) ==
    /\ IF SaveOk(m)
       THEN /\ store' = SaveStore(m)
            /\ updatedAt' = Stamp(updatedAt, ExtOf(m), now)
            /\ IF RowById(m.Id) = NoMedia
               THEN created' = Bump(created, ExtOf(m)) /\ UNCHANGED updated
               ELSE updated' = Bump(updated, ExtOf(m)) /\ UNCHANGED created
       ELSE UNCHANGED <<store, created, updated, updatedAt>>
    /\ UNCHANGED nextId

\* repository UpdateMedia (repository.go:131-179): Updates(updates) writes
\* the columns of the map and the current time into updated_at
DbUpdate(m) ==
    /\ IF RepoUpdateOk(m)
       THEN /\ store' = RepoUpdateStore(m)
            /\ updated' = Bump(updated, ExtOf(m))
            /\ updatedAt' = Stamp(updatedAt, ExtOf(m), now)
       ELSE UNCHANGED <<store, updated, updatedAt>>
    /\ UNCHANGED <<nextId, created>>

\* GetMediasByName / GetMediasByNameFromRepo: an error, or the matching rows
\* in some order (the query has no ORDER BY)
StoreQuery(n, dbOk) ==
    IF dbOk
    THEN {[err |-> FALSE, rows |-> o] : o \in Orderings(NameMatch(n))}
    ELSE {[err |-> TRUE, rows |-> <<>>]}

(***************************************************************************)
(* Bookkeeping of the invocations                                          *)
(***************************************************************************)
\* one create/update call issued by an invocation: its kind, the record's
\* external and internal ID, the catalog index, whether the caller already
\* had its answer, whether the inbound context was done, and whether the table
\* was written
Op(kind, m, i, p, wrote) ==
    [kind |-> kind, ext |-> ExtOf(m), id |-> m.Id, idx |-> i,
     returned |-> (result[p] # NoResult), ctxDone |-> (cancelled[p] # "no"),
     wrote |-> wrote]

MarkWrote(log) == [log EXCEPT ![Len(log)].wrote = TRUE]

Set(f, p, v) == [f EXCEPT ![p] = v]

callVars == <<name, searchErr, queryErr, localMedias, launched>>

(***************************************************************************)
(* The inbound context and the gRPC handler (server.go:94-109)             *)
(***************************************************************************)
\* the inbound context is done
Done(p) == cancelled[p] # "no"

\* the points of the synchronous phase at which the context can be found done
CancelPointsTMDB == {"no", "handler", "query"}
CancelPointsKP   == {"no", "handler", "service", "search", "query"}

\* server.go:95-97: status.FromContextError(ctx.Err()), the service is not called
HandlerCancelled ==
    [err |-> TRUE, medias |-> <<>>, kind |-> "cancel", code |-> "Canceled"]

\* server.go:103-108: every error of the service becomes codes.Internal
HandlerCode(err) == IF err THEN "Internal" ELSE "OK"

\* what the caller of the handler receives for the service's answer; kind is
\* what errors.Is finds in the service's error
Reply(err, kind, medias) ==
    [err |-> err, medias |-> medias, kind |-> kind, code |-> HandlerCode(err)]

\* variant of GoCtxDone for a goroutine that is given the inbound context
GoCtxDone_Inbound(p) == Done(p)

\* the goroutine's store calls are given context.Background(), which is never
\* done (service.go:89, part_002:102-120)
GoCtxDone(p) == FALSE

\* the context is cancelled while an invocation or its goroutine is running
Cancel(p) ==
    /\ pc[p] # "idle"
    /\ ~Done(p)
    /\ cancelled' = Set(cancelled, p, "late")
    /\ UNCHANGED <<variant, sdVars, fnVars, now, updMedia, calls, storeVars, pc, callVars, catMedias, idx,
                   mediaPointers, mediaMap, dbMedia, result, ops>>

(***************************************************************************)
(* TMDB variant: GetMediasByName (service.go:52-92)                        *)
(* The search, the name-match query and the merge touch the table once,    *)
(* so they are one step; the goroutine is started before the return.       *)
(***************************************************************************)
\* variant of SyncTMDB that goes on after a failed name-match query
SyncTMDB_IgnoreQueryErr(q, tmdbMedias) ==
    [err |-> FALSE, locals |-> q.rows, ptrs |-> MergeTMDB(q.rows, tmdbMedias), go |-> 1]

\* variant of SyncTMDB that starts the goroutine before it looks at the
\* query's error
SyncTMDB_LaunchOnQueryErr(q, tmdbMedias) ==
    IF q.err
    THEN [err |-> TRUE, locals |-> <<>>, ptrs |-> <<>>, go |-> 1]
    ELSE [err |-> FALSE, locals |-> q.rows, ptrs |-> MergeTMDB(q.rows, tmdbMedias),
          go |-> 1]

\* lines 63-91: what is returned and whether the goroutine is started
SyncTMDB(q, tmdbMedias) ==
    IF q.err
    THEN [err |-> TRUE, locals |-> <<>>, ptrs |-> <<>>, go |-> 0]
    ELSE [err |-> FALSE, locals |-> q.rows, ptrs |-> MergeTMDB(q.rows, tmdbMedias),
          go |-> 1]

\* variant of SearchTMDB that hands over the records next to the error
SearchTMDB_KeepsResults(sErr, found) == found

\* SearchTMDB (service.go:138-159): nil and the error when a step fails
SearchTMDB(sErr, found) == IF sErr THEN <<>> ELSE found

CallTMDB(p, points) ==
    /\ variant = "tmdb"
    /\ pc[p] = "idle"
    /\ calls < MaxCalls
    /\ calls' = calls + 1
    /\ \E n \in Names, sErr \in BOOLEAN, found \in TmdbAnswers, dbOk \in BOOLEAN,
          at \in points :
         \* the handler's check stops the call; a cancelled query fails
         /\ at = "handler" => ~sErr /\ found = <<>> /\ dbOk
         /\ at = "query" => ~dbOk
         /\ cancelled' = Set(cancelled, p, at)
         /\ \E q \in StoreQuery(n, dbOk /\ at = "no") :
              \* a failed search leaves tmdbMedias nil and execution continues
              LET tmdbMedias == SearchTMDB(sErr, found)
                  out == IF at = "handler"
                         THEN [err |-> TRUE, locals |-> <<>>, ptrs |-> <<>>, go |-> 0]
                         ELSE SyncTMDB(q, tmdbMedias)
              IN
              /\ name' = Set(name, p, n)
              /\ searchErr' = Set(searchErr, p, sErr)
              /\ queryErr' = Set(queryErr, p, q.err /\ at # "handler")
              /\ localMedias' = Set(localMedias, p, out.locals)
              /\ catMedias' = Set(catMedias, p, tmdbMedias)
              /\ mediaPointers' = Set(mediaPointers, p, out.ptrs)
              /\ launched' = Set(launched, p, out.go)
              /\ result' = Set(result, p,
                     IF at = "handler" THEN HandlerCancelled
                     ELSE Reply(out.err,
                                IF ~out.err THEN "none"
                                ELSE IF at = "query" THEN "cancel" ELSE "other",
                                DerefAll(out.locals, tmdbMedias, out.ptrs)))
              /\ pc' = Set(pc, p, IF out.go = 1 /\ tmdbMedias # <<>>
                                  THEN "async" ELSE "idle")
    /\ ops' = Set(ops, p, <<>>)
    /\ idx' = Set(idx, p, 1)
    /\ UNCHANGED <<variant, sdVars, fnVars, now, updMedia, storeVars, mediaMap, dbMedia>>

\* a call whose context is live until the list is returned
GetMediasByNameTMDB(p) == CallTMDB(p, {"no"})

\* a call whose context may be done at a point of the synchronous phase
GetMediasByNameTMDBCtx(p) == CallTMDB(p, CancelPointsTMDB)

\* the goroutine moves to the next catalog record, or ends
NextItem(p) ==
    /\ idx' = Set(idx, p, idx[p] + 1)
    /\ pc' = Set(pc, p, IF idx[p] + 1 > Len(catMedias[p]) THEN "idle" ELSE "async")

(***************************************************************************)
(* TMDB variant: updateDatabaseAsync, one catalog record (service.go:104-  *)
(* 125), up to and including the first table access it makes.              *)
(***************************************************************************)
\* variant of AsyncBranchTMDB that never looks the record up in mediaMap
AsyncBranchTMDB_CreateAlways(localMedia, tmdbMedia) == "create"

\* lines 105-118: which branch a catalog record takes
AsyncBranchTMDB(localMedia, tmdbMedia) ==
    IF localMedia # NoMedia
    THEN IF needsUpdateTMDB(localMedia, tmdbMedia) THEN "update" ELSE "skip"
    ELSE "create"

AsyncItemTMDB(p) ==
    LET i == idx[p]
        tmdbMedia == catMedias[p][i]
        localMedia == LocalMapTMDB(localMedias[p], tmdbMedia.TmdbId)
        branch == AsyncBranchTMDB(localMedia, tmdbMedia)
        saved == ~GoCtxDone(p) /\ InsertOk(tmdbMedia)
    IN
    /\ variant = "tmdb"
    /\ pc[p] = "async"
    /\ CASE branch = "update" ->
              \* tmdbMedia.Id = localMedia.Id; s.UpdateMedia(ctx, tmdbMedia)
              LET media == [tmdbMedia EXCEPT !.Id = localMedia.Id]
                  existingMedia == RowById(media.Id)
              IN
              /\ catMedias' = [catMedias EXCEPT ![p][i] = media]
              /\ ops' = Set(ops, p, Append(ops[p], Op("update", media, i, p, FALSE)))
              /\ IF \/ GoCtxDone(p)
                    \/ existingMedia = NoMedia
                    \/ SameFieldsTMDB(existingMedia, media)
                 THEN NextItem(p)       \* failed / nothing to update: logged
                 ELSE /\ pc' = Set(pc, p, "asyncSave")
                      /\ UNCHANGED idx
              /\ UNCHANGED storeVars
         [] branch = "skip" ->
              /\ NextItem(p)
              /\ UNCHANGED <<storeVars, catMedias, ops>>
         [] branch = "create" ->
              \* s.repo.CreateMedia(ctx, tmdbMedia): db.Create fills tmdbMedia.Id
              /\ ops' = Set(ops, p, Append(ops[p], Op("create", tmdbMedia, i, p, saved)))
              /\ IF GoCtxDone(p) THEN UNCHANGED storeVars ELSE DbCreate(tmdbMedia)
              /\ catMedias' = IF saved
                              THEN [catMedias EXCEPT ![p][i] = InsertRow(tmdbMedia)]
                              ELSE catMedias
              /\ NextItem(p)
    /\ UNCHANGED <<variant, sdVars, fnVars, now, updMedia, calls, callVars, cancelled, mediaPointers, mediaMap, dbMedia, result>>

(***************************************************************************)
(* TMDB variant: the write of s.UpdateMedia (service.go:220-232,           *)
(* postgres.go:66-76): db.Save, then the row is read back and discarded.   *)
(***************************************************************************)
AsyncSaveTMDB(p) ==
    LET media == catMedias[p][idx[p]] IN
    /\ variant = "tmdb"
    /\ pc[p] = "asyncSave"
    /\ IF GoCtxDone(p) THEN UNCHANGED storeVars ELSE DbSave(media)
    /\ ops' = Set(ops, p, IF ~GoCtxDone(p) /\ SaveOk(media)
                          THEN MarkWrote(ops[p]) ELSE ops[p])
    /\ NextItem(p)
    /\ UNCHANGED <<variant, sdVars, fnVars, now, updMedia, calls, callVars, cancelled, catMedias, mediaPointers, mediaMap,
                   dbMedia, result>>

(***************************************************************************)
(* Kinopoisk variant: GetMediasByName (service.go:322-443), statement by   *)
(* statement: every table access is a step of its own.                     *)
(***************************************************************************)
\* variant of SyncKP without the test for an empty name
SyncKP_AcceptsEmptyName(n, sErr, q) ==
    IF sErr \/ q.err
    THEN [err |-> TRUE, locals |-> <<>>, ptrs |-> <<>>]
    ELSE [err |-> FALSE, locals |-> q.rows, ptrs |-> MergeLocalKP(q.rows, 1, <<>>)]

\* lines 324-363: validation, context check, search, name-match query, first
\* loop
SyncKP(n, sErr, q) ==
    IF n = Empty \/ sErr \/ q.err
    THEN [err |-> TRUE, locals |-> <<>>, ptrs |-> <<>>]
    ELSE [err |-> FALSE, locals |-> q.rows, ptrs |-> MergeLocalKP(q.rows, 1, <<>>)]

\* variant of AppendOutcome that leaves a record out when its write failed
AppendOutcome_DropFailed(ptrs, ok, stored, fallback) ==
    IF ok THEN Append(ptrs, stored) ELSE ptrs

\* 378-384, 394-401: the stored record is appended, or the fallback when the
\* write failed
AppendOutcome(ptrs, ok, stored, fallback) ==
    Append(ptrs, IF ok THEN stored ELSE fallback)

\* the loop moves to the next catalog record, or the list is returned
KpAdvance(p, ptrs) ==
    /\ mediaPointers' = Set(mediaPointers, p, ptrs)
    /\ idx' = Set(idx, p, idx[p] + 1)
    /\ IF idx[p] + 1 > Len(catMedias[p])
       THEN /\ pc' = Set(pc, p, "idle")
            /\ result' = Set(result, p, Reply(FALSE, "none", ptrs))
       ELSE /\ pc' = Set(pc, p, "kpLoop")
            /\ UNCHANGED result

CallKP(p, points) ==
    /\ variant = "kp"
    /\ pc[p] = "idle"
    /\ calls < MaxCalls
    /\ calls' = calls + 1
    /\ \E n \in Names, sErr \in BOOLEAN, found \in KpAnswers, dbOk \in BOOLEAN,
          at \in points :
         \* a call that fails early makes no later call
         /\ n = Empty => ~sErr /\ at \in {"no", "handler"}
         /\ (n = Empty \/ sErr) => found = <<>> /\ dbOk
         /\ at \in {"handler", "service"} => ~sErr /\ found = <<>> /\ dbOk
         \* a cancelled search and a cancelled query fail
         /\ at = "search" => sErr
         /\ at = "query" => ~dbOk
         /\ cancelled' = Set(cancelled, p, at)
         /\ \E q \in StoreQuery(n, dbOk /\ at \in {"no", "search"}) :
              LET early == at \in {"handler", "service"}
                  out == IF early THEN [err |-> TRUE, locals |-> <<>>, ptrs |-> <<>>]
                         ELSE SyncKP(n, sErr, q)
                  loop == ~out.err /\ found # <<>>
              IN
              /\ name' = Set(name, p, n)
              /\ searchErr' = Set(searchErr, p, sErr)
              /\ queryErr' = Set(queryErr, p, q.err /\ ~early /\ ~sErr /\ n # Empty)
              /\ localMedias' = Set(localMedias, p, out.locals)
              /\ catMedias' = Set(catMedias, p, found)
              /\ mediaPointers' = Set(mediaPointers, p, out.ptrs)
              /\ mediaMap' = Set(mediaMap, p, LocalMapKP(out.ptrs))
              /\ result' = Set(result, p,
                     IF loop THEN NoResult
                     ELSE IF at = "handler" THEN HandlerCancelled
                     ELSE Reply(out.err,
                                IF ~out.err THEN "none"
                                ELSE IF at # "no" /\ n # Empty THEN "cancel"
                                ELSE "other",
                                out.ptrs))
              /\ pc' = Set(pc, p, IF loop THEN "kpLoop" ELSE "idle")
    /\ ops' = Set(ops, p, <<>>)
    /\ idx' = Set(idx, p, 1)
    /\ launched' = Set(launched, p, 0)
    /\ dbMedia' = Set(dbMedia, p, NoMedia)
    /\ UNCHANGED <<variant, sdVars, fnVars, now, updMedia, storeVars>>

\* a call whose context is live when the loop is entered
GetMediasByNameKP(p) == CallKP(p, {"no"})

\* a call whose context may be done at a point before the loop
GetMediasByNameKPCtx(p) == CallKP(p, CancelPointsKP)

\* lines 366-372, 391-393, 409-417: one catalog record, up to the table
\* access that decides its branch
KpItem(p) ==
    LET i == idx[p]
        kpMedia == catMedias[p][i]
        e == kpMedia.KinopoiskId
        existingMedia == mediaMap[p][e]
    IN
    /\ variant = "kp"
    /\ pc[p] = "kpLoop"
    /\ IF existingMedia = NoMedia
       THEN LET row == RowByExt(e) IN      \* GetMediaByKinopoiskID
            IF Done(p)
            THEN \* 385-388: the lookup failed otherwise than with "not found"
                 /\ KpAdvance(p, Append(mediaPointers[p], kpMedia))
                 /\ mediaMap' = [mediaMap EXCEPT ![p][e] = kpMedia]
                 /\ UNCHANGED <<dbMedia, catMedias>>
            ELSE
            IF row = NoMedia
            THEN /\ pc' = Set(pc, p, "kpCreate")
                 /\ UNCHANGED <<idx, mediaPointers, mediaMap, dbMedia, result, catMedias>>
            ELSE IF needsUpdateKP(row, kpMedia)
                 THEN /\ pc' = Set(pc, p, "kpUpdateDb")
                      /\ dbMedia' = Set(dbMedia, p, row)
                      /\ UNCHANGED <<idx, mediaPointers, mediaMap, result, catMedias>>
                 ELSE /\ KpAdvance(p, Append(mediaPointers[p], row))
                      /\ mediaMap' = [mediaMap EXCEPT ![p][e] = kpMedia]
                      /\ UNCHANGED <<dbMedia, catMedias>>
       ELSE IF needsUpdateKP(existingMedia, kpMedia) /\ existingMedia.Id > 0
            THEN \* kpMedia.Id = existingMedia.Id
                 /\ catMedias' = [catMedias EXCEPT ![p][i].Id = existingMedia.Id]
                 /\ pc' = Set(pc, p, "kpUpdateSeen")
                 /\ UNCHANGED <<idx, mediaPointers, mediaMap, dbMedia, result>>
            ELSE /\ KpAdvance(p, mediaPointers[p])
                 /\ UNCHANGED <<mediaMap, dbMedia, catMedias>>
    /\ UNCHANGED <<variant, sdVars, fnVars, now, updMedia, calls, storeVars, callVars, cancelled, ops>>

\* lines 373-390: the record is in no row: CreateMedia
KpCreate(p) ==
    LET i == idx[p]
        kpMedia == catMedias[p][i]
        saved == ~Done(p) /\ InsertOk(kpMedia)
    IN
    /\ variant = "kp"
    /\ pc[p] = "kpCreate"
    /\ ops' = Set(ops, p, Append(ops[p], Op("create", kpMedia, i, p, saved)))
    /\ IF Done(p) THEN UNCHANGED storeVars
       ELSE DbCreateAt(kpMedia, ParseTime(FormatTime(now)))
    /\ KpAdvance(p, AppendOutcome(mediaPointers[p], saved, InsertRow(kpMedia), kpMedia))
    /\ mediaMap' = [mediaMap EXCEPT ![p][kpMedia.KinopoiskId] = kpMedia]
    /\ UNCHANGED <<variant, sdVars, fnVars, now, updMedia, calls, callVars, cancelled, catMedias, dbMedia>>

\* lines 392-407: the record is in a row the name-match query did not return
KpUpdateDb(p) ==
    LET i == idx[p]
        kpMedia == catMedias[p][i]
        updatedOk == ~Done(p) /\ RepoUpdateOk(kpMedia)
    IN
    /\ variant = "kp"
    /\ pc[p] = "kpUpdateDb"
    /\ ops' = Set(ops, p, Append(ops[p], Op("update", kpMedia, i, p, updatedOk)))
    /\ IF Done(p) THEN UNCHANGED storeVars ELSE DbUpdate(kpMedia)
    /\ KpAdvance(p, AppendOutcome(mediaPointers[p], updatedOk,
                                  RepoUpdatedRow(kpMedia), dbMedia[p]))
    /\ mediaMap' = [mediaMap EXCEPT ![p][kpMedia.KinopoiskId] = kpMedia]
    /\ UNCHANGED <<variant, sdVars, fnVars, now, updMedia, calls, callVars, cancelled, catMedias, dbMedia>>

\* lines 410-431: the record is already in the results and differs
KpUpdateSeen(p) ==
    LET i == idx[p]
        kpMedia == catMedias[p][i]
        updatedOk == ~Done(p) /\ RepoUpdateOk(kpMedia)
    IN
    /\ variant = "kp"
    /\ pc[p] = "kpUpdateSeen"
    /\ ops' = Set(ops, p, Append(ops[p], Op("update", kpMedia, i, p, updatedOk)))
    /\ IF Done(p) THEN UNCHANGED storeVars ELSE DbUpdate(kpMedia)
    /\ IF updatedOk
       THEN /\ KpAdvance(p, ReplaceFirst(mediaPointers[p], RepoUpdatedRow(kpMedia)))
            /\ mediaMap' = [mediaMap EXCEPT ![p][kpMedia.KinopoiskId] =
                                RepoUpdatedRow(kpMedia)]
       ELSE /\ KpAdvance(p, mediaPointers[p])
            /\ UNCHANGED mediaMap
    /\ UNCHANGED <<variant, sdVars, fnVars, now, updMedia, calls, callVars, cancelled, catMedias, dbMedia>>

(***************************************************************************)
(* Asynchronous Kinopoisk variant (part_002:65-132, repository part_005):  *)
(* the merged list is returned at once and a goroutine walks that list.    *)
(***************************************************************************)
CancelPointsKPA == {"no", "handler", "search", "query"}

\* part_002:84-97: addMedia over the local results, then over the catalog's
MergeKPA(locals, kinopoiskMedias) == MergeLocalKP(locals \o kinopoiskMedias, 1, <<>>)

\* part_002:75-131: what is returned and whether the goroutine is started
SyncKPA(q, kinopoiskMedias) ==
    IF q.err
    THEN [err |-> TRUE, locals |-> <<>>, ptrs |-> <<>>, go |-> 0]
    ELSE [err |-> FALSE, locals |-> q.rows, ptrs |-> MergeKPA(q.rows, kinopoiskMedias),
          go |-> 1]

CallKPA(p, points) ==
    /\ variant = "kpa"
    /\ pc[p] = "idle"
    /\ calls < MaxCalls
    /\ calls' = calls + 1
    /\ \E n \in Names, sErr \in BOOLEAN, found \in KpAnswers, dbOk \in BOOLEAN,
          at \in points :
         /\ sErr => found = <<>>
         /\ at = "handler" => ~sErr /\ dbOk
         \* a cancelled search fails and is logged; the query then fails too
         /\ at = "search" => sErr
         /\ at \in {"search", "query"} => ~dbOk
         /\ cancelled' = Set(cancelled, p, at)
         /\ \E q \in StoreQuery(n, dbOk /\ at = "no") :
              LET out == IF at = "handler"
                         THEN [err |-> TRUE, locals |-> <<>>, ptrs |-> <<>>, go |-> 0]
                         ELSE SyncKPA(q, found)
              IN
              /\ name' = Set(name, p, n)
              /\ searchErr' = Set(searchErr, p, sErr)
              /\ queryErr' = Set(queryErr, p, q.err /\ at # "handler")
              /\ localMedias' = Set(localMedias, p, out.locals)
              /\ catMedias' = Set(catMedias, p, found)
              /\ mediaPointers' = Set(mediaPointers, p, out.ptrs)
              /\ launched' = Set(launched, p, out.go)
              /\ result' = Set(result, p,
                     IF at = "handler" THEN HandlerCancelled
                     ELSE Reply(out.err,
                                IF ~out.err THEN "none"
                                ELSE IF at # "no" THEN "cancel" ELSE "other",
                                out.ptrs))
              /\ pc' = Set(pc, p, IF out.go = 1 /\ out.ptrs # <<>> THEN "kpa" ELSE "idle")
    /\ ops' = Set(ops, p, <<>>)
    /\ idx' = Set(idx, p, 1)
    /\ UNCHANGED <<variant, sdVars, fnVars, now, updMedia, storeVars, mediaMap, dbMedia>>

GetMediasByNameKPA(p) == CallKPA(p, CancelPointsKPA)

\* the goroutine moves to the next entry of the merged list, or ends
KpaNext(p) ==
    /\ idx' = Set(idx, p, idx[p] + 1)
    /\ pc' = Set(pc, p, IF idx[p] + 1 > Len(mediaPointers[p]) THEN "idle" ELSE "kpa")

\* part_002:102-118: GetMediaByID(context.Background(), m.KinopoiskId)
KpaItem(p) ==
    LET m == mediaPointers[p][idx[p]]
        existingMedia == RowById(m.KinopoiskId)
    IN
    /\ variant = "kpa"
    /\ pc[p] = "kpa"
    /\ IF GoCtxDone(p)
       THEN KpaNext(p)          \* part_002:113-115: the lookup failed, logged
       ELSE
       IF existingMedia = NoMedia
       THEN pc' = Set(pc, p, "kpaCreate") /\ UNCHANGED idx
       ELSE IF needsUpdateKP(existingMedia, m)
            THEN pc' = Set(pc, p, "kpaUpdate") /\ UNCHANGED idx
            ELSE KpaNext(p)
    /\ UNCHANGED <<variant, sdVars, fnVars, now, updMedia, calls, storeVars, callVars, cancelled, catMedias,
                   mediaPointers, mediaMap, dbMedia, result, ops>>

\* part_002:104-112: CreateMedia(context.Background(), m)
KpaCreate(p) ==
    LET m == mediaPointers[p][idx[p]] IN
    /\ variant = "kpa"
    /\ pc[p] = "kpaCreate"
    /\ ops' = Set(ops, p, Append(ops[p],
                  Op("create", m, idx[p], p, ~GoCtxDone(p) /\ InsertOk(m))))
    /\ IF GoCtxDone(p) THEN UNCHANGED storeVars ELSE DbCreate(m)
    /\ KpaNext(p)
    /\ UNCHANGED <<variant, sdVars, fnVars, now, updMedia, calls, callVars, cancelled, catMedias, mediaPointers,
                   mediaMap, dbMedia, result>>

\* part_002:118-126: UpdateMedia(context.Background(), m)
KpaUpdate(p) ==
    LET m == mediaPointers[p][idx[p]] IN
    /\ variant = "kpa"
    /\ pc[p] = "kpaUpdate"
    /\ ops' = Set(ops, p, Append(ops[p],
                  Op("update", m, idx[p], p, ~GoCtxDone(p) /\ RepoUpdateOk(m))))
    /\ IF GoCtxDone(p) THEN UNCHANGED storeVars ELSE DbUpdate(m)
    /\ KpaNext(p)
    /\ UNCHANGED <<variant, sdVars, fnVars, now, updMedia, calls, callVars, cancelled, catMedias, mediaPointers,
                   mediaMap, dbMedia, result>>

(***************************************************************************)
(* SaveMedia (service.go:186-193, 462-481): one CreateMedia                *)
(***************************************************************************)
\* req.Media.UpdatedAt is the caller's text
SaveMediaAt(p, stamps) ==
    /\ pc[p] = "idle"
    /\ calls < MaxCalls
    /\ calls' = calls + 1
    /\ \E m \in (IF variant = "tmdb" THEN TmdbCatalog ELSE KpCatalog), u \in stamps :
          DbCreateAt(m, ParseTime(u))
    /\ UNCHANGED <<variant, sdVars, fnVars, now, updMedia, procVars>>

\* a request without a timestamp
SaveMedia(p) == SaveMediaAt(p, {Empty})

(***************************************************************************)
(* UpdateMedia (TMDB: service.go:195-233, postgres.go:66-76; Kinopoisk:    *)
(* service.go:484-515, repository.go:131-179): the row is read, compared   *)
(* with the argument, and written by a second table access.                *)
(***************************************************************************)
\* arguments of UpdateMedia: an internal ID, an external ID, a title
UpdateInputs ==
    {[(IF variant = "tmdb" THEN TmdbMedia(e, t) ELSE KpMedia(e, t)) EXCEPT !.Id = id] :
        id \in {1, 2}, e \in ExtIds, t \in {Old, New}}

\* what the service does after GetMediaByID
UpdateDecision(existingMedia, m) ==
    IF existingMedia = NoMedia THEN "notfound"
    ELSE IF variant = "tmdb"
         THEN IF SameFieldsTMDB(existingMedia, m) THEN "same" ELSE "write"
         ELSE IF ~needsUpdateKP(existingMedia, m) THEN "unchanged" ELSE "write"

UpdateMedia(p) ==
    /\ variant \in {"tmdb", "kp"}
    /\ pc[p] = "idle"
    /\ calls < MaxCalls
    /\ calls' = calls + 1
    /\ \E m \in UpdateInputs :
         LET existingMedia == RowById(m.Id)
             decision == UpdateDecision(existingMedia, m)
         IN  /\ updMedia' = Set(updMedia, p, m)
             /\ pc' = Set(pc, p, IF decision = "write" THEN "updWrite" ELSE "idle")
             /\ result' = Set(result, p,
                    CASE decision = "write" -> NoResult
                      [] decision = "unchanged" -> Reply(FALSE, "none", <<existingMedia>>)
                      [] OTHER -> Reply(TRUE, decision, <<>>))
    /\ ops' = Set(ops, p, <<>>)
    /\ cancelled' = Set(cancelled, p, "no")
    /\ UNCHANGED <<variant, sdVars, fnVars, now, storeVars, callVars, catMedias, idx,
                   mediaPointers, mediaMap, dbMedia>>

\* s.repo.UpdateMedia and the answer
UpdateMediaWrite(p) ==
    LET m == updMedia[p]
        wrote == IF variant = "tmdb" THEN SaveOk(m) ELSE RepoUpdateOk(m)
        failure == IF variant = "tmdb" THEN "store"
                   ELSE IF RowById(m.Id) = NoMedia THEN "notfound" ELSE "mismatch"
        row == IF variant = "tmdb" THEN m ELSE RepoUpdatedRow(m)
    IN
    /\ pc[p] = "updWrite"
    /\ IF variant = "tmdb" THEN DbSave(m) ELSE DbUpdate(m)
    /\ ops' = Set(ops, p, <<Op("update", m, 1, p, wrote)>>)
    /\ result' = Set(result, p, IF wrote THEN Reply(FALSE, "none", <<row>>)
                                ELSE Reply(TRUE, failure, <<>>))
    /\ pc' = Set(pc, p, "idle")
    /\ UNCHANGED <<variant, sdVars, fnVars, now, updMedia, calls, callVars, cancelled, catMedias, idx,
                   mediaPointers, mediaMap, dbMedia>>

\* a request whose UpdatedAt is empty, a past or a future timestamp
SaveMediaStamped(p) ==
    SaveMediaAt(p, {Empty, FormatTime(StartTime - 1), FormatTime(MaxTime + 1)})

\* a second passes
Tick ==
    /\ now < MaxTime
    /\ now' = now + 1
    /\ UNCHANGED <<variant, sdVars, fnVars, updMedia, calls, storeVars, procVars>>

(***************************************************************************)
(* Specification                                                           *)
(***************************************************************************)
\* the rows of an initial table: 5 absent, Old or New; 9 absent or Other
InitRowChoices == {<<t5, t9>> : t5 \in {Empty, Old, New}, t9 \in {Empty, Other}}

\* a table the service can have built: unique Ids from the sequence, which
\* rejected inserts and deleted rows have advanced to first; unique external IDs
TableOf(v, choice, first) ==
    LET t5 == choice[1]
        t9 == choice[2]
        mk(id, t) == IF v = "tmdb" THEN TmdbMedia(id, t) ELSE KpMedia(id, t)
        row5 == IF t5 = Empty THEN {} ELSE {[mk(5, t5) EXCEPT !.Id = first]}
        row9 == IF t9 = Empty THEN {}
                ELSE {[mk(9, t9) EXCEPT !.Id = first + Cardinality(row5)]}
    IN  row5 \cup row9

IdleProc(f) == [p \in Procs |-> f]

\* no invocation is running
ProcInit ==
    /\ calls = 0
    /\ pc = IdleProc("idle")
    /\ name = IdleProc(Empty)
    /\ searchErr = IdleProc(FALSE)
    /\ queryErr = IdleProc(FALSE)
    /\ localMedias = IdleProc(<<>>)
    /\ catMedias = IdleProc(<<>>)
    /\ idx = IdleProc(1)
    /\ mediaPointers = IdleProc(<<>>)
    /\ mediaMap = IdleProc([e \in ExtIds |-> NoMedia])
    /\ dbMedia = IdleProc(NoMedia)
    /\ result = IdleProc(NoResult)
    /\ launched = IdleProc(0)
    /\ cancelled = IdleProc("no")
    /\ ops = IdleProc(<<>>)
    /\ updMedia = IdleProc(NoMedia)

\* the process is serving: no signal, no server error
ServingInit ==
    /\ layout = "main"
    /\ mainPc = "serving"
    /\ stopPc = "none"
    /\ srvPc = "serving"
    /\ inFlight = 0
    /\ stuck = 0
    /\ errChan = 0
    /\ shutdownDone = 0
    /\ ctxCancelled = FALSE
    /\ timeout = "off"
    /\ grpcStopped = FALSE
    /\ dbClosed = FALSE

InitOf(variants, firstIds) ==
    /\ variant \in variants
    /\ \E choice \in InitRowChoices, first \in firstIds :
         /\ store = TableOf(variant, choice, first)
         /\ nextId = first + Cardinality(store)
         /\ created = [e \in ExtIds |-> IF \E r \in store : ExtOf(r) = e THEN 1 ELSE 0]
    /\ updated = [e \in ExtIds |-> 0]
    /\ now = StartTime
    /\ updatedAt = [e \in ExtIds |-> IF \E r \in store : ExtOf(r) = e THEN now ELSE ZeroTime]
    /\ ProcInit
    /\ ServingInit
    /\ fnExisting = NoMedia
    /\ fnNew = NoMedia
    /\ fnResult = "none"

Init == InitOf({"tmdb", "kp"}, {1})

Next ==
    \E p \in Procs :
        \/ GetMediasByNameTMDB(p)
        \/ AsyncItemTMDB(p)
        \/ AsyncSaveTMDB(p)
        \/ GetMediasByNameKP(p)
        \/ KpItem(p)
        \/ KpCreate(p)
        \/ KpUpdateDb(p)
        \/ KpUpdateSeen(p)
        \/ SaveMedia(p)

Spec == Init /\ [][Next]_vars

(***************************************************************************)
(* One caller whose context can be cancelled at every step of its          *)
(* invocation and of its goroutine, next to a client that calls SaveMedia. *)
(***************************************************************************)
CancelNext ==
    \/ GetMediasByNameTMDBCtx(1)
    \/ AsyncItemTMDB(1)
    \/ AsyncSaveTMDB(1)
    \/ GetMediasByNameKPCtx(1)
    \/ KpItem(1)
    \/ KpCreate(1)
    \/ KpUpdateDb(1)
    \/ KpUpdateSeen(1)
    \/ GetMediasByNameKPA(1)
    \/ KpaItem(1)
    \/ KpaCreate(1)
    \/ KpaUpdate(1)
    \/ Cancel(1)
    \/ SaveMedia(2)

CancelInit == InitOf({"tmdb", "kp"}, {1}) \/ InitOf({"kpa"}, {1, 5})

SpecCancel == CancelInit /\ [][CancelNext]_vars

(***************************************************************************)
(* The write operations of the service over time: a caller of the          *)
(* Kinopoisk GetMediasByName, clients that call SaveMedia and UpdateMedia, *)
(* and the clock.                                                          *)
(***************************************************************************)
UpdateNext ==
    \/ GetMediasByNameKP(1)
    \/ KpItem(1)
    \/ KpCreate(1)
    \/ KpUpdateDb(1)
    \/ KpUpdateSeen(1)
    \/ \E p \in Procs :
         \/ UpdateMedia(p)
         \/ UpdateMediaWrite(p)
         \/ SaveMediaStamped(p)
    \/ Tick

SpecUpdate == Init /\ [][UpdateNext]_vars

(***************************************************************************)
(* The Kinopoisk repository called by concurrent clients (repository.go):  *)
(* UpdateMedia is a read with the mismatch test (131-148) and, as a second *)
(* statement, an UPDATE by primary key (150-171); DeleteMedia (181-206);   *)
(* CreateMedia of a record whose Id the caller chose (111-129,             *)
(* gorm_models.go:53).                                                     *)
(***************************************************************************)
RepoUpdateRead(p) ==
    /\ variant = "kp"
    /\ pc[p] = "idle"
    /\ calls < MaxStoreCalls
    /\ calls' = calls + 1
    /\ \E m \in UpdateInputs :
         LET existingMedia == RowById(m.Id)
             failure == IF existingMedia = NoMedia THEN "notfound"
                        ELSE IF m.KinopoiskId # existingMedia.KinopoiskId THEN "mismatch"
                        ELSE "none"
         IN  /\ updMedia' = Set(updMedia, p, IF failure = "none" THEN m ELSE NoMedia)
             /\ pc' = Set(pc, p, IF failure = "none" THEN "repoWrite" ELSE "idle")
             /\ result' = Set(result, p, IF failure = "none" THEN NoResult
                                         ELSE Reply(TRUE, failure, <<>>))
    /\ ops' = Set(ops, p, <<>>)
    /\ cancelled' = Set(cancelled, p, "no")
    /\ UNCHANGED <<variant, sdVars, fnVars, now, storeVars, callVars, catMedias, idx,
                   mediaPointers, mediaMap, dbMedia>>

\* Model(&existingMedia).Updates(updates): UPDATE ... WHERE id = existingMedia.ID,
\* then the row is read back
RepoUpdateWrite(p) ==
    LET m == updMedia[p]
        hit == RowById(m.Id) # NoMedia
    IN
    /\ variant = "kp"
    /\ pc[p] = "repoWrite"
    /\ IF hit
       THEN /\ store' = RepoUpdateStore(m)
            /\ updated' = Bump(updated, ExtOf(RowById(m.Id)))
            /\ updatedAt' = Stamp(updatedAt, ExtOf(RowById(m.Id)), now)
       ELSE UNCHANGED <<store, updated, updatedAt>>
    /\ UNCHANGED <<nextId, created>>
    /\ ops' = Set(ops, p, <<Op("update", m, 1, p, hit)>>)
    /\ result' = Set(result, p, IF hit THEN Reply(FALSE, "none", <<RepoUpdatedRow(m)>>)
                                ELSE Reply(TRUE, "notfound", <<>>))
    /\ pc' = Set(pc, p, "idle")
    /\ updMedia' = Set(updMedia, p, NoMedia)
    /\ UNCHANGED <<variant, sdVars, fnVars, now, calls, callVars, cancelled, catMedias, idx,
                   mediaPointers, mediaMap, dbMedia>>

\* DeleteMedia: the row with this primary key is deleted, if there is one
DeleteMedia(p) ==
    /\ variant = "kp"
    /\ pc[p] = "idle"
    /\ calls < MaxStoreCalls
    /\ calls' = calls + 1
    /\ \E id \in {1, 2} :
         /\ store' = {r \in store : r.Id # id}
         /\ updatedAt' = IF RowById(id) = NoMedia THEN updatedAt
                         ELSE Stamp(updatedAt, ExtOf(RowById(id)), ZeroTime)
         /\ result' = Set(result, p, [err |-> FALSE, medias |-> <<>>,
                                      kind |-> IF RowById(id) = NoMedia
                                               THEN "nothing" ELSE "deleted",
                                      code |-> "OK"])
    /\ UNCHANGED <<variant, sdVars, fnVars, now, updMedia, nextId, created, updated, pc,
                   callVars, catMedias, idx, mediaPointers, mediaMap, dbMedia,
                   cancelled, ops>>

\* CreateMedia of a record that carries an Id
CreateMediaWithId(p) ==
    /\ variant = "kp"
    /\ pc[p] = "idle"
    /\ calls < MaxStoreCalls
    /\ calls' = calls + 1
    /\ \E m \in KpCatalog, id \in {1, 2} : DbCreate([m EXCEPT !.Id = id])
    /\ UNCHANGED <<variant, sdVars, fnVars, now, updMedia, procVars>>

RaceNext ==
    \E p \in Procs :
        \/ RepoUpdateRead(p)
        \/ RepoUpdateWrite(p)
        \/ DeleteMedia(p)
        \/ CreateMediaWithId(p)

RaceInit == InitOf({"kp"}, {1})

SpecRace == RaceInit /\ [][RaceNext]_vars

(***************************************************************************)
(* Two invocations in succession by one caller of the TMDB variant, the    *)
(* second with the name and the catalog answer of the first, both with a   *)
(* working catalog and a working name-match query.                         *)
(***************************************************************************)
ZeroIds(medias) == [i \in DOMAIN medias |-> [medias[i] EXCEPT !.Id = 0]]

TwiceCall ==
    /\ GetMediasByNameTMDB(1)
    /\ ~searchErr'[1]
    /\ ~queryErr'[1]
    /\ calls = 1 => /\ name'[1] = name[1]
                    /\ ZeroIds(catMedias'[1]) = ZeroIds(catMedias[1])

TwiceInit == Init /\ variant = "tmdb"

TwiceNext ==
    \/ TwiceCall
    \/ AsyncItemTMDB(1)
    \/ AsyncSaveTMDB(1)

SpecTwice == TwiceInit /\ [][TwiceNext]_vars

(***************************************************************************)
(* needsUpdate called on its own (service.go:128-136, 544-559): the        *)
(* operands are a stored record or nil, and a record that differs from it  *)
(* in any set of fields, or nil.                                           *)
(***************************************************************************)
\* a value of field f other than v
OtherValue(f, v) ==
    IF f = "Id" THEN v + 1
    ELSE IF f \in {"TmdbId", "KinopoiskId"} THEN CHOOSE e \in ExtIds : e # v
    ELSE IF f = "Type" THEN "series"
    ELSE IF v = Other THEN New ELSE Other

\* the record m with the fields of D changed
Changed(m, D) == [f \in DOMAIN m |-> IF f \in D THEN OtherValue(f, m[f]) ELSE m[f]]

StoredRecord(v) ==
    IF v = "tmdb" THEN [TmdbMedia(5, Old) EXCEPT !.Id = 1]
    ELSE [KpMedia(5, Old) EXCEPT !.Id = 1]

GoBool(b) == IF b THEN "true" ELSE "false"

\* the call needsUpdate(existingMedia, newMedia) of the generation in use:
\* the TMDB function reads the fields of both pointers without a nil test, so
\* a nil operand is a nil-pointer dereference; the Kinopoisk function tests
\* for nil first
needsUpdate(existingMedia, newMedia) ==
    IF variant = "tmdb"
    THEN IF existingMedia = NoMedia \/ newMedia = NoMedia THEN "panic"
         ELSE GoBool(needsUpdateTMDB(existingMedia, newMedia))
    ELSE GoBool(needsUpdateKP(existingMedia, newMedia))

CallNeedsUpdate ==
    /\ fnResult = "none"
    /\ fnResult' = needsUpdate(fnExisting, fnNew)
    /\ UNCHANGED <<variant, sdVars, calls, storeVars, procVars, fnExisting, fnNew, now,
                   updMedia>>

FnInit ==
    /\ variant \in {"tmdb", "kp"}
    /\ store = {}
    /\ nextId = 1
    /\ created = [e \in ExtIds |-> 0]
    /\ updated = [e \in ExtIds |-> 0]
    /\ now = StartTime
    /\ updatedAt = [e \in ExtIds |-> ZeroTime]
    /\ ProcInit
    /\ ServingInit
    /\ fnExisting \in {NoMedia, StoredRecord(variant)}
    /\ fnNew \in {NoMedia} \cup {Changed(StoredRecord(variant), D) :
                                     D \in SUBSET DOMAIN StoredRecord(variant)}
    /\ fnResult = "none"

FnNext == CallNeedsUpdate

SpecFn == FnInit /\ [][FnNext]_vars

(***************************************************************************)
(* Validation of the requests (Kinopoisk generation): GetMediasByName with *)
(* a nil request (service.go:324-326) and SaveMedia as the service runs it *)
(* (service.go:462-481).                                                   *)
(***************************************************************************)
GetMediasByNameNil(p) ==
    /\ variant = "kp"
    /\ pc[p] = "idle"
    /\ calls < MaxCalls
    /\ calls' = calls + 1
    /\ result' = Set(result, p, Reply(TRUE, "nilrequest", <<>>))
    /\ name' = Set(name, p, Empty)
    /\ searchErr' = Set(searchErr, p, FALSE)
    /\ queryErr' = Set(queryErr, p, FALSE)
    /\ localMedias' = Set(localMedias, p, <<>>)
    /\ catMedias' = Set(catMedias, p, <<>>)
    /\ mediaPointers' = Set(mediaPointers, p, <<>>)
    /\ ops' = Set(ops, p, <<>>)
    /\ UNCHANGED <<variant, sdVars, fnVars, now, updMedia, storeVars, launched, idx,
                   mediaMap, dbMedia, cancelled, pc>>

\* req.Media: nil, or a record with a valid or an invalid KinopoiskId
SaveRequests ==
    {NoMedia} \cup {[m EXCEPT !.KinopoiskId = k] : m \in KpCatalog, k \in {-1, 0, 5, 9}}

\* the first statement logs req.Media.KinopoiskId (line 463), the nil test
\* follows it (466): a nil media is a nil-pointer dereference
SaveOutcome(media) ==
    IF media = NoMedia THEN "panic"
    ELSE IF media.KinopoiskId <= 0 THEN "invalid"
    ELSE IF InsertOk(media) THEN "none"
    ELSE "store"

SaveMediaRequest(p) ==
    /\ variant = "kp"
    /\ pc[p] = "idle"
    /\ calls < MaxCalls
    /\ calls' = calls + 1
    /\ \E media \in SaveRequests :
         LET outcome == SaveOutcome(media) IN
         /\ updMedia' = Set(updMedia, p, media)
         /\ IF outcome \in {"panic", "invalid"}
            THEN UNCHANGED storeVars
            ELSE DbCreate(media)
         /\ result' = Set(result, p,
                IF outcome = "none" THEN Reply(FALSE, "none", <<InsertRow(media)>>)
                ELSE Reply(TRUE, outcome, <<>>))
    /\ ops' = Set(ops, p, <<>>)
    /\ UNCHANGED <<variant, sdVars, fnVars, now, pc, callVars, catMedias, idx,
                   mediaPointers, mediaMap, dbMedia, cancelled>>

ValidateNext ==
    \E p \in Procs :
        \/ GetMediasByNameKP(p)
        \/ KpItem(p)
        \/ KpCreate(p)
        \/ KpUpdateDb(p)
        \/ KpUpdateSeen(p)
        \/ GetMediasByNameNil(p)
        \/ SaveMediaRequest(p)

ValidateInit == InitOf({"kp"}, {1})

SpecValidate == ValidateInit /\ [][ValidateNext]_vars

(***************************************************************************)
(* Shutdown of the process: cmd/main.go:87-150 ("main") and part_008:49-94 *)
(* with GracefulShutdown of part_009:136-171 ("utils").  main, the server  *)
(* goroutine and the shutdown goroutine are three processes; an RPC that   *)
(* is stuck keeps GracefulStop from returning.                             *)
(***************************************************************************)
Running == mainPc \notin {"exited", "forced"}

restVars == <<variant, calls, storeVars, procVars, fnVars, now, updMedia>>

\* the shutdown goroutine is launched and the timer started
LaunchShutdown ==
    /\ stopPc' = "stopping"
    /\ timeout' = "running"
    /\ mainPc' = "select"

\* first select of main: a termination signal arrives
OnSignal ==
    /\ mainPc = "serving"
    /\ LaunchShutdown
    /\ UNCHANGED <<layout, srvPc, inFlight, stuck, errChan, shutdownDone, ctxCancelled,
                   grpcStopped, dbClosed, restVars>>

\* StartGRPCServer returns an error; part_008:67-70 sends it, main.go:94
\* drops it
ServerFails ==
    /\ Running
    /\ srvPc = "serving"
    /\ stopPc = "none"
    /\ srvPc' = "failed"
    /\ errChan' = IF layout = "utils" THEN 1 ELSE errChan
    /\ UNCHANGED <<layout, mainPc, stopPc, inFlight, stuck, shutdownDone, ctxCancelled,
                   timeout, grpcStopped, dbClosed, restVars>>

\* first select of main: case err := <-errChan, with cancel() in part_008
OnServerError ==
    /\ mainPc = "serving"
    /\ errChan > 0
    /\ errChan' = errChan - 1
    /\ ctxCancelled' = (layout = "utils")
    /\ LaunchShutdown
    /\ UNCHANGED <<layout, srvPc, inFlight, stuck, shutdownDone, grpcStopped, dbClosed,
                   restVars>>

\* an RPC that is not stuck returns
RpcFinish ==
    /\ Running
    /\ inFlight > stuck
    /\ inFlight' = inFlight - 1
    /\ UNCHANGED <<layout, mainPc, stopPc, srvPc, stuck, errChan, shutdownDone,
                   ctxCancelled, timeout, grpcStopped, dbClosed, restVars>>

\* grpcServer.GracefulStop() returns when no RPC is left; Serve returns too
GracefulStopReturns ==
    /\ Running
    /\ stopPc = "stopping"
    /\ inFlight = 0
    /\ stopPc' = "closing"
    /\ grpcStopped' = TRUE
    /\ srvPc' = IF srvPc = "serving" THEN "returned" ELSE srvPc
    /\ UNCHANGED <<layout, mainPc, inFlight, stuck, errChan, shutdownDone, ctxCancelled,
                   timeout, dbClosed, restVars>>

\* sqlDB.Close()
CloseDatabaseConnection ==
    /\ Running
    /\ stopPc = "closing"
    /\ stopPc' = "sending"
    /\ dbClosed' = TRUE
    /\ UNCHANGED <<layout, mainPc, srvPc, inFlight, stuck, errChan, shutdownDone,
                   ctxCancelled, timeout, grpcStopped, restVars>>

\* shutdownDone <- true (buffered), then the deferred wg.Done()
SendShutdownDone ==
    /\ Running
    /\ stopPc = "sending"
    /\ stopPc' = "done"
    /\ shutdownDone' = shutdownDone + 1
    /\ UNCHANGED <<layout, mainPc, srvPc, inFlight, stuck, errChan, ctxCancelled, timeout,
                   grpcStopped, dbClosed, restVars>>

\* the 10 seconds of time.After pass
TimerFires ==
    /\ Running
    /\ timeout = "running"
    /\ timeout' = "fired"
    /\ UNCHANGED <<layout, mainPc, stopPc, srvPc, inFlight, stuck, errChan, shutdownDone,
                   ctxCancelled, grpcStopped, dbClosed, restVars>>

\* second select: case <-shutdownDone
SelectShutdownDone ==
    /\ mainPc = "select"
    /\ shutdownDone > 0
    /\ shutdownDone' = shutdownDone - 1
    /\ mainPc' = "wgWait"
    /\ UNCHANGED <<layout, stopPc, srvPc, inFlight, stuck, errChan, ctxCancelled, timeout,
                   grpcStopped, dbClosed, restVars>>

\* second select: case <-timeout, os.Exit(1)
SelectTimeout ==
    /\ mainPc = "select"
    /\ timeout = "fired"
    /\ mainPc' = "forced"
    /\ UNCHANGED <<layout, stopPc, srvPc, inFlight, stuck, errChan, shutdownDone,
                   ctxCancelled, timeout, grpcStopped, dbClosed, restVars>>

\* second select of GracefulShutdown: case <-ctx.Done(); the function returns
SelectCtxDone ==
    /\ layout = "utils"
    /\ mainPc = "select"
    /\ ctxCancelled
    /\ mainPc' = "wgWait"
    /\ UNCHANGED <<layout, stopPc, srvPc, inFlight, stuck, errChan, shutdownDone,
                   ctxCancelled, timeout, grpcStopped, dbClosed, restVars>>

\* wg.Wait() returns when the server goroutine and the shutdown goroutine
\* are done; main returns
WgWaitReturns ==
    /\ mainPc = "wgWait"
    /\ stopPc = "done"
    /\ srvPc \in {"failed", "returned"}
    /\ mainPc' = "exited"
    /\ UNCHANGED <<layout, stopPc, srvPc, inFlight, stuck, errChan, shutdownDone,
                   ctxCancelled, timeout, grpcStopped, dbClosed, restVars>>

ShutdownInit ==
    /\ variant = "kp"
    /\ store = {}
    /\ nextId = 1
    /\ created = [e \in ExtIds |-> 0]
    /\ updated = [e \in ExtIds |-> 0]
    /\ now = StartTime
    /\ updatedAt = [e \in ExtIds |-> ZeroTime]
    /\ ProcInit
    /\ fnExisting = NoMedia
    /\ fnNew = NoMedia
    /\ fnResult = "none"
    /\ layout \in {"main", "utils"}
    /\ mainPc = "serving"
    /\ stopPc = "none"
    /\ srvPc = "serving"
    /\ inFlight = MaxRpcs
    /\ stuck \in 0..inFlight
    /\ errChan = 0
    /\ shutdownDone = 0
    /\ ctxCancelled = FALSE
    /\ timeout = "off"
    /\ grpcStopped = FALSE
    /\ dbClosed = FALSE

ShutdownNext ==
    \/ OnSignal
    \/ ServerFails
    \/ OnServerError
    \/ RpcFinish
    \/ GracefulStopReturns
    \/ CloseDatabaseConnection
    \/ SendShutdownDone
    \/ TimerFires
    \/ SelectShutdownDone
    \/ SelectTimeout
    \/ SelectCtxDone
    \/ WgWaitReturns

\* every goroutine that can run does run, and the timer's time passes; the
\* signal and the server error are the environment's
ShutdownFairness ==
    /\ WF_vars(OnServerError)
    /\ WF_vars(RpcFinish)
    /\ WF_vars(GracefulStopReturns)
    /\ WF_vars(CloseDatabaseConnection)
    /\ WF_vars(SendShutdownDone)
    /\ WF_vars(TimerFires)
    /\ WF_vars(SelectShutdownDone \/ SelectTimeout \/ SelectCtxDone)
    /\ WF_vars(WgWaitReturns)

SpecShutdown == ShutdownInit /\ [][ShutdownNext]_vars /\ ShutdownFairness

(***************************************************************************)
(* Vocabulary of the properties                                            *)
(***************************************************************************)
Answered(p) == result[p] # NoResult
Listed(p)   == Answered(p) /\ ~result[p].err

Exts(medias) == [i \in DOMAIN medias |-> ExtOf(medias[i])]

\* the elements of s, each at its first occurrence
RECURSIVE FirstOcc(_)
FirstOcc(s) ==
    IF s = <<>> THEN <<>>
    ELSE LET front == FirstOcc(SubSeq(s, 1, Len(s) - 1))
             last  == s[Len(s)]
         IN  IF last \in Range(front) THEN front ELSE Append(front, last)

\* the records of medias, each external ID at its first occurrence
FirstByExt(medias) ==
    LET keep == {i \in DOMAIN medias :
                    \A j \in 1..(i - 1) : ExtOf(medias[j]) # ExtOf(medias[i])}
        pos(k) == CHOOSE i \in keep : Cardinality({j \in keep : j < i}) = k - 1
    IN  [k \in 1..Cardinality(keep) |-> medias[pos(k)]]

ChangeDetected(a, b) ==
    IF variant = "tmdb" THEN needsUpdateTMDB(a, b) ELSE needsUpdateKP(a, b)

\* the display fields of two records are equal
SameDisplay(a, b) ==
    IF variant = "tmdb"
    THEN /\ a.Type = b.Type /\ a.Title = b.Title /\ a.TitleRu = b.TitleRu
         /\ a.Description = b.Description /\ a.DescriptionRu = b.DescriptionRu
         /\ a.ReleaseDate = b.ReleaseDate /\ a.Poster = b.Poster
    ELSE /\ a.Type = b.Type /\ a.NameEn = b.NameEn /\ a.NameRu = b.NameRu
         /\ a.Description = b.Description /\ a.Year = b.Year /\ a.Poster = b.Poster
         /\ a.Countries = b.Countries /\ a.Genres = b.Genres

OpsOf(p) == {ops[p][k] : k \in DOMAIN ops[p]}

\* the catalog records the reconciliation has dealt with
Processed(p) == IF pc[p] = "asyncSave" THEN idx[p] ELSE idx[p] - 1

(***************************************************************************)
(* Properties                                                              *)
(***************************************************************************)

\* C1: a list returned without error holds no two records with the same
\* external ID.
C1_NoDuplicateExternalId ==
    \A p \in Procs :
        Listed(p) =>
            \A i, j \in DOMAIN result[p].medias :
                i # j => ExtOf(result[p].medias[i]) # ExtOf(result[p].medias[j])

\* a list was returned for a catalog answer that repeats an external ID which
\* the name-match query returned as well
C1_Witness ==
    \E p \in Procs :
        /\ Listed(p)
        /\ result[p].medias # <<>>
        /\ \E i, j \in DOMAIN catMedias[p], l \in DOMAIN localMedias[p] :
              /\ i # j
              /\ ExtOf(catMedias[p][i]) = ExtOf(catMedias[p][j])
              /\ ExtOf(catMedias[p][i]) = ExtOf(localMedias[p][l])

\* C2: when a local record and the only catalog record with its external ID
\* differ for the change detector, the returned list holds the catalog's
\* display values for that external ID.
C2_CatalogValuesWin ==
    \A p \in Procs :
        Listed(p) =>
            \A l \in DOMAIN localMedias[p], c \in DOMAIN catMedias[p] :
                (/\ ExtOf(localMedias[p][l]) = ExtOf(catMedias[p][c])
                 /\ \A d \in DOMAIN catMedias[p] :
                       ExtOf(catMedias[p][d]) = ExtOf(catMedias[p][c]) => d = c
                 /\ ChangeDetected(localMedias[p][l], catMedias[p][c]))
                => \E k \in DOMAIN result[p].medias :
                      /\ ExtOf(result[p].medias[k]) = ExtOf(catMedias[p][c])
                      /\ SameDisplay(result[p].medias[k], catMedias[p][c])

\* C3: when the catalog search fails and the name-match query does not, the
\* invocation returns without error the local results, each external ID once.
C3_CatalogErrorDegrades ==
    \A p \in Procs :
        (Answered(p) /\ searchErr[p] /\ ~queryErr[p])
        => /\ ~result[p].err
           /\ result[p].medias = FirstByExt(localMedias[p])

\* C4: every create and update of an invocation is issued after the list was
\* returned, by a background phase started at most once per invocation.
C4_WritesOnlyInBackground ==
    \A p \in Procs :
        /\ launched[p] <= 1
        /\ \A op \in OpsOf(p) : op.returned
        /\ (ops[p] # <<>>) => launched[p] = 1

\* C5: the table never holds two rows with one external ID; an external ID
\* is inserted exactly once however the invocations and SaveMedia interleave;
\* a create that lost is not followed by an update of the same external ID in
\* that invocation.
C5_UniqueExternalId ==
    /\ \A r1, r2 \in store : ExtOf(r1) = ExtOf(r2) => r1 = r2
    /\ \A e \in ExtIds : created[e] = Cardinality({r \in store : ExtOf(r) = e})
    /\ \A p \in Procs : \A k1, k2 \in DOMAIN ops[p] :
          (/\ k1 < k2
           /\ ops[p][k1].kind = "create"
           /\ ~ops[p][k1].wrote
           /\ ops[p][k2].ext = ops[p][k1].ext)
          => ops[p][k2].kind # "update"

\* two invocations raced on the same unseen external ID: one inserted it, the
\* other's create was rejected
C5_Witness ==
    \E p, q \in Procs : \E a \in OpsOf(p), b \in OpsOf(q) :
        /\ p # q
        /\ a.kind = "create" /\ a.wrote
        /\ b.kind = "create" /\ ~b.wrote
        /\ a.ext = b.ext
        /\ created[a.ext] = 1

\* C6: after two passes over the same catalog answer, each external ID was
\* created at most once and updated at most once, and the second pass wrote
\* nothing.
C6_SecondPassWritesNothing ==
    (calls = 2 /\ pc[1] = "idle")
    => /\ \A e \in ExtIds : created[e] <= 1 /\ updated[e] <= 1
       /\ \A op \in OpsOf(1) : ~op.wrote

\* C7: in the reconciliation of the TMDB variant a create is issued for a
\* catalog record exactly when no local result has its external ID, and an
\* update exactly when one has and the change detector reports a difference.
C7_CreateIffAbsentUpdateIffChanged ==
    \A p \in Procs :
        (variant = "tmdb" /\ launched[p] = 1) =>
            /\ \A op \in OpsOf(p) : op.idx \in 1..Processed(p)
            /\ \A i \in 1..Processed(p) :
                  LET c == catMedias[p][i]
                      matches == {l \in DOMAIN localMedias[p] :
                                    ExtOf(localMedias[p][l]) = ExtOf(c)}
                      issued(kind) == \E op \in OpsOf(p) : op.idx = i /\ op.kind = kind
                  IN  /\ issued("create") <=> matches = {}
                      /\ issued("update") <=>
                            \E l \in matches : needsUpdateTMDB(localMedias[p][l], c)
                      /\ Cardinality({k \in DOMAIN ops[p] : ops[p][k].idx = i}) <= 1

\* the reconciliation finished for a local result that differs from its
\* catalog record and a catalog record without local result
C7_Witness ==
    \E p \in Procs :
        /\ variant = "tmdb"
        /\ pc[p] = "idle"
        /\ Len(localMedias[p]) = 1
        /\ Len(catMedias[p]) = 2
        /\ Len(ops[p]) = 2
        /\ ops[p][1].kind = "update" /\ ops[p][1].ext = ExtOf(localMedias[p][1])
        /\ ops[p][2].kind = "create" /\ ops[p][2].ext # ops[p][1].ext

\* C8: every update issued carries a non-zero internal ID, that of the row
\* with the record's external ID.
C8_UpdateCarriesPersistedId ==
    \A p \in Procs : \A op \in OpsOf(p) :
        op.kind = "update"
        => /\ op.id # 0
           /\ \E r \in store : r.Id = op.id /\ ExtOf(r) = op.ext

\* C9: when the name-match query fails the invocation returns an error and
\* no list.
C9_StoreFailureIsFatal ==
    \A p \in Procs :
        queryErr[p] => /\ Answered(p)
                       /\ result[p].err
                       /\ result[p].medias = <<>>
                       /\ ops[p] = <<>>

\* the name-match query failed although the catalog had answered with records
C9_Witness ==
    \E p \in Procs : queryErr[p] /\ catMedias[p] # <<>> /\ Answered(p)

\* C10: the external IDs of a returned list are those of the local results
\* followed by those of the catalog answer, each at its first occurrence.
C10_FirstOccurrenceOrder ==
    \A p \in Procs :
        Listed(p) =>
            Exts(result[p].medias) =
                FirstOcc(Exts(localMedias[p]) \o Exts(catMedias[p]))

\* a list was returned in which the first of two local results was replaced
\* by the updated record
C10_Witness ==
    \E p \in Procs :
        /\ Listed(p)
        /\ Len(localMedias[p]) = 2
        /\ Len(result[p].medias) = 2
        /\ result[p].medias[1] # localMedias[p][1]
        /\ \E op \in OpsOf(p) :
              op.kind = "update" /\ op.wrote /\ op.ext = ExtOf(localMedias[p][1])

\* the entries of the merged list the goroutine of part_002 has dealt with
Walked(p) == IF pc[p] \in {"kpaCreate", "kpaUpdate"} THEN idx[p] ELSE idx[p] - 1

\* C11: when the inbound context is cancelled after the goroutine was
\* started, the goroutine still goes through all of its work (every catalog
\* record, or every entry of the merged list, which holds every external ID
\* of the catalog answer), and none of its creates fails for another reason
\* than a row that is already there.
C11_CancelDoesNotAbortReconcile ==
    \A p \in Procs :
        (variant \in {"tmdb", "kpa"} /\ launched[p] = 1 /\ cancelled[p] = "late"
            /\ pc[p] = "idle")
        => /\ variant = "tmdb" => Processed(p) = Len(catMedias[p])
           /\ variant = "kpa" =>
                 /\ Walked(p) = Len(mediaPointers[p])
                 /\ \A c \in DOMAIN catMedias[p] :
                       \E k \in 1..Walked(p) :
                          ExtOf(mediaPointers[p][k]) = ExtOf(catMedias[p][c])
           /\ \A op \in OpsOf(p) :
                 (op.kind = "create" /\ ~op.wrote)
                 => \E r \in store : ExtOf(r) = op.ext \/ r.Id = op.id

\* a goroutine has ended that wrote a row after its caller's context was
\* cancelled
C11_Witness ==
    \E p \in Procs :
        /\ cancelled[p] = "late"
        /\ launched[p] = 1
        /\ pc[p] = "idle"
        /\ \E op \in OpsOf(p) : op.ctxDone /\ op.wrote

\* C12: when the context is found done at a point of the synchronous phase,
\* the caller receives an error with a cancellation status and no list.
C12_SyncCancelIsCancellationError ==
    \A p \in Procs :
        (Answered(p) /\ cancelled[p] \in {"handler", "service", "search", "query"})
        => /\ result[p].err
           /\ result[p].medias = <<>>
           /\ result[p].kind = "cancel"
           /\ result[p].code = "Canceled"

\* C13: when a create or update of the reconciliation failed, the caller
\* still has (or gets) the merged list without error: the first occurrences
\* of the local and the catalog external IDs.
C13_WriteFailureOnlyLogged ==
    \A p \in Procs :
        (Answered(p) /\ \E op \in OpsOf(p) : ~op.wrote)
        => /\ ~result[p].err
           /\ result[p].code = "OK"
           /\ Exts(result[p].medias) =
                 FirstOcc(Exts(localMedias[p]) \o Exts(catMedias[p]))

\* the inline variant returned its list although a create was rejected with a
\* conflict and an update found no row
C13_Witness ==
    \E p \in Procs :
        /\ variant = "kp"
        /\ Listed(p)
        /\ \E op \in OpsOf(p) : op.kind = "create" /\ ~op.wrote /\ ~op.ctxDone
        /\ \E op \in OpsOf(p) : op.kind = "update" /\ ~op.wrote /\ ~op.ctxDone


(***************************************************************************)
(* C14: the background reconciliation writes none of the records of the    *)
(* response: at every moment after GetMediasByName returned a list, the    *)
(* objects the list refers to still hold the values the caller received.   *)
(* TMDB variant: the response holds pointers into localMedias and          *)
(* tmdbMedias, and the goroutine works on the same tmdbMedias objects.     *)
(***************************************************************************)
C14_ResponseObjectsNotWritten ==
    \A p \in Procs :
        (variant = "tmdb" /\ Listed(p)) =>
            DerefAll(localMedias[p], catMedias[p], mediaPointers[p]) = result[p].medias


(***************************************************************************)
(* C15: within the reconciliation of one invocation no two create/update   *)
(* calls are issued for the same external ID, whatever the catalog         *)
(* answered, an answer that repeats an external ID included.               *)
(***************************************************************************)
C15_OneOperationPerExternalId ==
    \A p \in Procs : \A j, k \in DOMAIN ops[p] :
        ops[p][j].ext = ops[p][k].ext => j = k


(***************************************************************************)
(* C16: needsUpdate(existing, candidate) returns true exactly when a       *)
(* display field differs between the two records: type, title, localized   *)
(* title, description, localized description, release information, poster, *)
(* or a tag field (countries, genres) compared by value.                   *)
(***************************************************************************)
C16_TrueIffDisplayFieldDiffers ==
    (fnResult # "none" /\ fnExisting # NoMedia /\ fnNew # NoMedia)
    => (fnResult = "true" <=> ~SameDisplay(fnExisting, fnNew))

(***************************************************************************)
(* C17: needsUpdate is total: for any two operands, a nil operand on       *)
(* either side included, the call returns a boolean, and it returns true   *)
(* whenever an operand is nil.                                             *)
(***************************************************************************)
C17_TotalAndTrueOnNil ==
    fnResult # "none"
    => /\ fnResult \in {"true", "false"}
       /\ (fnExisting = NoMedia \/ fnNew = NoMedia) => fnResult = "true"


(***************************************************************************)
(* C18: the external ID stored under an internal ID never changes, and an  *)
(* UpdateMedia whose argument carries another external ID than the row     *)
(* fails with a mismatch error and leaves the table as it was.             *)
(***************************************************************************)
C18_ExternalIdImmutable ==
    [][/\ \A r \in store : \A r2 \in store' : r.Id = r2.Id => ExtOf(r) = ExtOf(r2)
       /\ \A p \in Procs :
            (/\ pc[p] = "updWrite"
             /\ pc'[p] = "idle"
             /\ RowById(updMedia[p].Id) # NoMedia
             /\ ExtOf(RowById(updMedia[p].Id)) # ExtOf(updMedia[p]))
            => /\ store' = store
               /\ result'[p].err
               /\ result'[p].kind = "mismatch"]_vars

(***************************************************************************)
(* C19: for every external ID the stored updated_at never decreases over   *)
(* the creates and updates of GetMediasByName, SaveMedia and UpdateMedia   *)
(* (Kinopoisk generation).                                                 *)
(***************************************************************************)
C19_UpdatedAtMonotone ==
    [][variant = "kp" => \A e \in ExtIds : updatedAt'[e] >= updatedAt[e]]_vars


\* the external IDs that have a row
Persisted(rows) == {ExtOf(r) : r \in rows}

(***************************************************************************)
(* C20: no step of GetMediasByName or of its reconciliation removes a row: *)
(* in every interleaving of invocations the external IDs persisted before  *)
(* a step are still persisted after it.                                    *)
(***************************************************************************)
C20_NoRowRemoved ==
    [][Persisted(store) \subseteq Persisted(store')]_vars

\* both generations' write paths have run: an invocation has ended after a
\* successful update of a stored row and a successful create next to it
C20_Witness ==
    \E p \in Procs :
        /\ Answered(p)
        /\ pc[p] = "idle"
        /\ \E op \in OpsOf(p) : op.kind = "update" /\ op.wrote
        /\ \E op \in OpsOf(p) : op.kind = "create" /\ op.wrote
        /\ Persisted(store) = ExtIds


\* no two records of the catalog answer share an external ID
DistinctExts(medias) ==
    \A j, k \in DOMAIN medias : ExtOf(medias[j]) = ExtOf(medias[k]) => j = k

(***************************************************************************)
(* C21: when the catalog search and the name-match query succeeded and the *)
(* reconcile work of the only invocation made has finished, every record   *)
(* of the catalog answer has a row with its external ID whose display      *)
(* fields equal the catalog's values, also when that external ID had a row *)
(* the name-match query did not return.                                    *)
(***************************************************************************)
C21_StoreAgreesWithCatalog ==
    \A p \in Procs :
        (/\ calls = 1
         /\ Listed(p)
         /\ pc[p] = "idle"
         /\ ~searchErr[p]
         /\ ~queryErr[p]
         /\ DistinctExts(catMedias[p]))
        => \A i \in DOMAIN catMedias[p] :
              \E r \in store : /\ ExtOf(r) = ExtOf(catMedias[p][i])
                               /\ SameDisplay(r, catMedias[p][i])


(***************************************************************************)
(* C22: the write of the store's UpdateMedia never puts the caller's       *)
(* fields into a row whose stored external ID differs from the external ID *)
(* the caller supplied, whatever DeleteMedia and CreateMedia calls on the  *)
(* same internal ID run between its mismatch test and its write.           *)
(***************************************************************************)
C22_UpdateWritesOnlyOwnExternalId ==
    [][\A p \in Procs :
          (pc[p] = "repoWrite" /\ pc'[p] = "idle" /\ store' # store)
          => ExtOf(RowById(updMedia[p].Id)) = ExtOf(updMedia[p])]_vars


(***************************************************************************)
(* C23: in the goroutine of the asynchronous Kinopoisk GetMediasByName the *)
(* choice between create and update follows the row with the record's      *)
(* external ID: a create is chosen only when no row has that KinopoiskId,  *)
(* and an update only when the row with that KinopoiskId differs from the  *)
(* record.                                                                 *)
(***************************************************************************)
C23_DecisionByExternalId ==
    [][\A p \in Procs :
          (variant = "kpa" /\ pc[p] = "kpa")
          => LET m == mediaPointers[p][idx[p]]
                 own == RowByExt(m.KinopoiskId)
             IN  /\ pc'[p] = "kpaCreate" => own = NoMedia
                 /\ pc'[p] = "kpaUpdate" => (own # NoMedia /\ needsUpdateKP(own, m))]_vars


(***************************************************************************)
(* C24: an invocation of GetMediasByName whose name-match query fails      *)
(* returns an error, starts no reconciliation and issues no create or      *)
(* update: the step leaves the table as it was, also when the catalog      *)
(* returned records.                                                       *)
(***************************************************************************)
C24_QueryFailureWritesNothing ==
    [][\A p \in Procs :
          ((GetMediasByNameTMDB(p) \/ GetMediasByNameKP(p)) /\ queryErr'[p])
          => /\ store' = store
             /\ result'[p] # NoResult
             /\ result'[p].err
             /\ launched'[p] = 0
             /\ ops'[p] = <<>>
             /\ pc'[p] = "idle"]_vars

\* an invocation has failed on its query although the catalog had records
\* and the table had rows, in either generation
C24_Witness ==
    \E p \in Procs :
        /\ Answered(p)
        /\ result[p].err
        /\ queryErr[p]
        /\ ~searchErr[p]
        /\ catMedias[p] # <<>>
        /\ store # {}
        /\ pc[p] = "idle"


(***************************************************************************)
(* C25: an invocation of GetMediasByName whose catalog search fails issues *)
(* no create and no update, neither before it returns nor in a background  *)
(* phase: the table is left as it was.                                     *)
(***************************************************************************)
C25_SearchFailureWritesNothing ==
    [][\A p \in Procs :
          ((GetMediasByNameTMDB(p) \/ GetMediasByNameKP(p)) /\ searchErr'[p])
          => /\ store' = store
             /\ result'[p] # NoResult
             /\ ops'[p] = <<>>
             /\ pc'[p] = "idle"]_vars

\* the TMDB invocation went on after the failed search: it returned the rows
\* of the table and started a goroutine that had nothing to do
C25_Witness ==
    \E p \in Procs :
        /\ searchErr[p]
        /\ Listed(p)
        /\ result[p].medias # <<>>
        /\ launched[p] = 1
        /\ pc[p] = "idle"
        /\ ops[p] = <<>>


\* the fields the service's UpdateMedia compares are all equal
SameCompared(existingMedia, m) ==
    IF variant = "tmdb" THEN SameFieldsTMDB(existingMedia, m)
    ELSE ~needsUpdateKP(existingMedia, m)

(***************************************************************************)
(* C26: the service's UpdateMedia, called with a record whose compared     *)
(* fields all equal those of the stored row, writes nothing and returns    *)
(* the stored row without error.                                           *)
(***************************************************************************)
C26_UnchangedUpdateReturnsStored ==
    [][\A p \in Procs :
          (/\ UpdateMedia(p)
           /\ RowById(updMedia'[p].Id) # NoMedia
           /\ SameCompared(RowById(updMedia'[p].Id), updMedia'[p]))
          => /\ store' = store
             /\ pc'[p] = "idle"
             /\ result'[p] = Reply(FALSE, "none", <<RowById(updMedia'[p].Id)>>)]_vars


(***************************************************************************)
(* C27: once the shutdown has begun (signal or server error) the process   *)
(* always ends, by the return of main or by the forced exit of the         *)
(* timeout, and the database connection is closed only after the gRPC      *)
(* server has stopped.                                                     *)
(***************************************************************************)
C27_ShutdownAlwaysEnds ==
    /\ [](dbClosed => grpcStopped)
    /\ (mainPc \in {"select", "wgWait"}) ~> (mainPc \in {"exited", "forced"})


(***************************************************************************)
(* C28: SaveMedia with a request whose media is nil returns the error      *)
(* "invalid request: nil media", and with a KinopoiskId <= 0 an invalid-ID *)
(* error, in both cases as a normal return and without a store call.       *)
(***************************************************************************)
C28_SaveMediaRejectsInvalid ==
    [][\A p \in Procs :
          SaveMediaRequest(p)
          => /\ updMedia'[p] = NoMedia
                => (result'[p] = Reply(TRUE, "nilmedia", <<>>) /\ store' = store)
             /\ (updMedia'[p] # NoMedia /\ updMedia'[p].KinopoiskId <= 0)
                => (result'[p] = Reply(TRUE, "invalid", <<>>) /\ store' = store)]_vars

(***************************************************************************)
(* C29: GetMediasByName with a nil request or an empty name returns an     *)
(* error; nothing was asked of the catalog or of the store, and no create  *)
(* or update is issued.                                                    *)
(***************************************************************************)
C29_InvalidRequestRejected ==
    [][\A p \in Procs :
          (GetMediasByNameNil(p) \/ (GetMediasByNameKP(p) /\ name'[p] = Empty))
          => /\ result'[p] # NoResult
             /\ result'[p].err
             /\ store' = store
             /\ catMedias'[p] = <<>>
             /\ localMedias'[p] = <<>>
             /\ ~searchErr'[p]
             /\ ~queryErr'[p]
             /\ ops'[p] = <<>>
             /\ pc'[p] = "idle"]_vars

\* both requests were rejected on a table that has rows: one caller's nil
\* request, the other's empty name
C29_Witness ==
    /\ store # {}
    /\ \E p, q \in Procs :
         /\ Answered(p) /\ result[p].err /\ result[p].kind = "nilrequest"
         /\ Answered(q) /\ result[q].err /\ result[q].kind = "other"
         /\ name[q] = Empty /\ ~searchErr[q] /\ ~queryErr[q]
         /\ pc[p] = "idle" /\ pc[q] = "idle"

====
